---------------------------- MODULE Spec2Model ----------------------------
(***************************************************************************)
(* Model of the content-distribution bot (src/bot.py, src/handlers/*.py,   *)
(* src/utils/*.py).                                                        *)
(*                                                                         *)
(* Handlers are asyncio coroutines.  A handler runs without interruption   *)
(* from one `await` of an outbound chat-platform call to the next, so each *)
(* action below is one such segment: the database calls (psycopg2,         *)
(* blocking) and the dictionary updates between two awaits are one step.   *)
(* Several handler invocations may be in flight; they interleave at their  *)
(* awaits (the dispatch of an Application that processes updates           *)
(* concurrently; with the sequential dispatch bot.py builds by default the *)
(* behaviours are those in which one invocation ends before the next       *)
(* starts, a subset of the ones here).                                     *)
(* An outbound call is fallible: where the source wraps it in try/except   *)
(* TelegramError the failure is a result, where it does not the exception  *)
(* leaves the handler (pc = "crashed").                                    *)
(*                                                                         *)
(* Python None and the empty string are both written <<>>: every place     *)
(* the modelled code looks at such a value tests its truthiness only.      *)
(* The write-only stats table (update_stats) is left out.                  *)
(***************************************************************************)
EXTENDS Integers, Sequences, FiniteSets, TLC

(***************************************************************************)
(* Bounds of the model.                                                    *)
(***************************************************************************)
MaxDay == 2          \* calendar days 1..MaxDay
MaxTotal == 2        \* no new request once a user has been served this often
MaxMsgs == 3         \* channel posts in the source channel
\* config.py line 44 sets 300; the quota logic only compares the counter with
\* the limit, so the model runs it with a small limit
DAILY_DOWNLOAD_LIMIT == 2

(***************************************************************************)
(* Configuration (src/config.py).                                          *)
(***************************************************************************)
Users == {1}

PublicChannel == "AFK_B"
PrivateChannel == "-1003649746851"
REQUIRED_CHANNELS == <<PublicChannel, PrivateChannel>>
ChannelType(c) == IF c = PrivateChannel THEN "private" ELSE "public"
\* the chat id of the public channel: REQUIRED_CHANNELS names that channel by
\* its username, a join request carries the numeric id (req.chat.id)
PublicChannelChatId == "-100_AFK_B"

SOURCE_CHANNEL_ID == "-1003573156420"
TARGET_CHANNELS == <<"-1003615561641", "-1003344091364">>

None == <<>>
Days == 1..MaxDay

(***************************************************************************)
(* Content ids: "vid_" followed by generated characters.                   *)
(***************************************************************************)
IdChars == <<"a", "b", "c", "d", "e">>
VID(c) == <<"v", "i", "d", "_", c>>

\* generate_video_id: the n-th generated id (ids are random in the source
\* and collision-free with high probability; the model names them in order)
generate_video_id(n) == VID(IdChars[n])

\* utils/helpers.py extract_video_id
extract_video_id(text) ==
    IF Len(text) >= 4 /\ SubSeq(text, 1, 4) = <<"v", "i", "d", "_">>
    THEN text ELSE None

VARIABLES
    today,          \* date.today()
    users,          \* table users: user_id -> row
    videos,         \* table videos: video_id -> row (partial function)
    vid_seq,        \* number of ids generated so far
    join_requests,  \* table join_requests: set of <<user_id, channel_id>>
    pending_video,  \* context.user_data[...]['pending_video'] per user
    tasks,          \* in-flight /start and verify handler invocations
    chk,            \* history: last result returned by check_daily_limit per user
    delivered,      \* history: successful deliveries per user and day
    premium_users,  \* config.PREMIUM_USERS, fixed at startup
    media_groups,   \* handlers/video.py media_groups
    pending_posts,  \* handlers/video.py pending_posts
    next_msg,       \* next message id of the source channel
    ptasks,         \* in-flight channel-post handler invocations
    posts,          \* previews sent to target channels: set of <<channel, video_id>>
    hist,           \* history per media group id: what happened to it
    gate_log,       \* history: the last check_channel call (a sequence of at most one)
    channel_log,    \* the source channel's posts by message id (what reply_to_message shows)
    fn_call,        \* a call of a pure helper under check: its argument and result
    dcall           \* the admin panel's delete callback: the invocation in flight or last finished

vars == <<today, users, videos, vid_seq, join_requests, pending_video, tasks,
          chk, delivered, premium_users, media_groups, pending_posts, next_msg, ptasks,
          posts, hist, gate_log, channel_log, fn_call, dcall>>


(***************************************************************************)
(* utils/database.py: users table                                          *)
(***************************************************************************)
NoRow == [exists |-> FALSE, downloads_today |-> 0, last_download_date |-> 0,
          total_downloads |-> 0]

\* get_user: SELECT, INSERT with the column defaults when absent
\* (last_download_date NULL is written 0)
get_user(us, u) ==
    IF us[u].exists THEN us
    ELSE [us EXCEPT ![u] = [exists |-> TRUE, downloads_today |-> 0,
                            last_download_date |-> 0, total_downloads |-> 0]]

check_daily_limit_reset_after(us, u, limit, day) ==
    LET us1 == get_user(us, u)
        us2 == [us1 EXCEPT ![u].downloads_today = 0,
                           ![u].last_download_date = day]
        remaining == limit - us1[u].downloads_today
    IN [users |-> us2, allowed |-> remaining > 0, remaining |-> remaining,
        stale |-> us1[u].last_download_date # day]

check_daily_limit_no_db_reset(us, u, limit, day) ==
    LET us1 == get_user(us, u)
        stale == us1[u].last_download_date # day
        cnt == IF stale THEN 0 ELSE us1[u].downloads_today
    IN [users |-> us1, allowed |-> limit - cnt > 0, remaining |-> limit - cnt,
        stale |-> stale]

\* check_daily_limit: the table afterwards and the returned (allowed, remaining);
\* stale records whether the stored date differed from today at the call
check_daily_limit(us, u, limit, day) ==
    LET us1 == get_user(us, u)
        stale == us1[u].last_download_date # day
        us2 == IF stale
               THEN [us1 EXCEPT ![u].downloads_today = 0,
                                ![u].last_download_date = day]
               ELSE us1
        cnt == IF stale THEN 0 ELSE us1[u].downloads_today
        remaining == limit - cnt
    IN [users |-> us2, allowed |-> remaining > 0, remaining |-> remaining,
        stale |-> stale]

record_download_daily_only(us, u, day) ==
    IF us[u].exists
    THEN [us EXCEPT ![u].downloads_today = @ + 1,
                    ![u].last_download_date = day]
    ELSE us

\* record_download: one UPDATE ... WHERE user_id; no row, no effect
record_download(us, u, day) ==
    IF us[u].exists
    THEN [us EXCEPT ![u].downloads_today = @ + 1,
                    ![u].total_downloads = @ + 1,
                    ![u].last_download_date = day]
    ELSE us

(***************************************************************************)
(* utils/database.py: videos table                                         *)
(***************************************************************************)
\* get_video: the row as a one-element sequence, None when absent
get_video(vs, v) == IF v \in DOMAIN vs THEN <<vs[v]>> ELSE None

save_video(vs, n, source_channel, message_id, title, thumbnail_id) ==
    LET video_id == generate_video_id(n)
        row == [source_channel |-> source_channel, message_id |-> message_id,
                title |-> title, thumbnail_id |-> thumbnail_id, downloads |-> 0]
    IN [x \in DOMAIN vs \cup {video_id} |-> IF x = video_id THEN row ELSE vs[x]]

increment_downloads_by_two(vs, v) ==
    IF v \in DOMAIN vs THEN [vs EXCEPT ![v].downloads = @ + 2] ELSE vs

increment_downloads(vs, v) ==
    IF v \in DOMAIN vs THEN [vs EXCEPT ![v].downloads = @ + 1] ELSE vs

(***************************************************************************)
(* utils/database.py: join_requests table                                  *)
(***************************************************************************)
add_join_request(jr, u, c) == jr \cup {<<u, c>>}
has_join_request(jr, u, c) == <<u, c>> \in jr
remove_join_request(jr, u, c) == jr \ {<<u, c>>}

(***************************************************************************)
(* handlers/start.py: the membership gate                                  *)
(***************************************************************************)
\* what bot.get_chat_member answers: a member status, or a TelegramError
LookupResults == {"member", "left", "error"}

check_membership(res) ==
    IF res = "error" THEN FALSE
    ELSE res \in {"member", "administrator", "creator", "restricted"}

check_channel_no_record_needed(jr, u, c, res) ==
    IF check_membership(res)
    THEN [ok |-> TRUE, jr |-> remove_join_request(jr, u, c)]
    ELSE [ok |-> ChannelType(c) = "private", jr |-> jr]

check_channel_keep_record(jr, u, c, res) ==
    IF check_membership(res)
    THEN [ok |-> TRUE, jr |-> jr]
    ELSE IF ChannelType(c) = "private"
         THEN [ok |-> has_join_request(jr, u, c), jr |-> jr]
         ELSE [ok |-> FALSE, jr |-> jr]

check_channel(jr, u, c, res) ==
    IF check_membership(res)
    THEN [ok |-> TRUE, jr |-> remove_join_request(jr, u, c)]
    ELSE IF ChannelType(c) = "private"
         THEN [ok |-> has_join_request(jr, u, c), jr |-> jr]
         ELSE [ok |-> FALSE, jr |-> jr]


\* check_all_channels line 59: len(not_joined) == 0
all_satisfied_le_one(not_joined) == Len(not_joined) <= 1

all_satisfied(not_joined) == Len(not_joined) = 0

(***************************************************************************)
(* handlers/video.py forward_video_to_user, after get_video found the row: *)
(* the part behind `await bot.forward_message`.  ok is whether the         *)
(* transport call returned; a TelegramError is caught and gives False.     *)
(***************************************************************************)
forward_result_counts_first(ok, vs, v) ==
    [videos |-> increment_downloads(vs, v), success |-> ok]

forward_result(ok, vs, v) ==
    IF ok THEN [videos |-> increment_downloads(vs, v), success |-> TRUE]
    ELSE [videos |-> vs, success |-> FALSE]

(***************************************************************************)
(* Handler invocations of handle_start and handle_verify_callback.         *)
(*   pc: "idle" | "gate" (awaiting get_chat_member of channel idx)         *)
(*       | "edit" (awaiting query.edit_message_text before deliver_video)  *)
(*       | "forward" (awaiting bot.forward_message) | "done" | "crashed"   *)
(* History fields, not read by any guard: unsat (channels found            *)
(* unsatisfied in this invocation), gate, took, delivers, forwards, eff,   *)
(* outcome, msg.                                                           *)
(***************************************************************************)
Tasks == {"h1", "h2"}

IdleTask == [kind |-> "none", user |-> 0, pc |-> "idle", video_id |-> None,
             idx |-> 0, not_joined |-> <<>>, unsat |-> 0, gate |-> "none",
             took |-> None, delivers |-> 0, forwards |-> 0, eff |-> {},
             outcome |-> "none", msg |-> "none"]

\* the handler returns (replied) or its last reply raised (not replied);
\* its locals are gone either way
Finish(tk, outcome, replied) ==
    [tk EXCEPT !.pc = IF replied THEN "done" ELSE "crashed",
               !.outcome = outcome,
               !.msg = IF replied THEN outcome ELSE "none",
               !.idx = 0, !.not_joined = <<>>]

\* The record of a finished invocation is kept for one state and dropped by
\* the next step (of any handler); t is the invocation taking the step
Drop(ts, t) ==
    [x \in Tasks |-> IF x # t /\ tasks[x].pc \in {"done", "crashed"}
                     THEN IdleTask ELSE ts[x]]

\* update.message is None for a callback-query update, so every
\* update.message.reply_text of deliver_video raises on the verify path;
\* on the /start path the reply is an outbound call that may fail
ReplyOutcomes(tk) == IF tk.kind = "verify" THEN {FALSE} ELSE {TRUE, FALSE}

\* which counters a step changed, for the user u and the content item v
Effects(us, us2, vs, vs2, u, v) ==
    (IF us2[u].downloads_today < us[u].downloads_today THEN {"reset"} ELSE {})
    \cup (IF us2[u].downloads_today > us[u].downloads_today THEN {"daily"} ELSE {})
    \cup (IF us2[u].total_downloads # us[u].total_downloads THEN {"total"} ELSE {})
    \cup (IF v \in DOMAIN vs /\ v \in DOMAIN vs2 /\ vs2[v].downloads # vs[v].downloads
          THEN {"content"} ELSE {})

Checked(u, c) ==
    [chk EXCEPT ![u] = [day |-> today, remaining |-> c.remaining,
                        allowed |-> c.allowed, stale |-> c.stale]]

deliver_video_checks_everyone(t, tk, vid) ==
    LET u == tk.user
        c == check_daily_limit(users, u, DAILY_DOWNLOAD_LIMIT, today)
        tk1 == [tk EXCEPT !.delivers = @ + 1, !.video_id = vid,
                          !.eff = @ \cup Effects(users, c.users, videos, videos, u, vid)]
    IN /\ users' = c.users
       /\ chk' = Checked(u, c)
       /\ IF ~c.allowed
          THEN \E replied \in ReplyOutcomes(tk) :
                  tasks' = Drop([tasks EXCEPT ![t] = Finish(tk1, "limit", replied)], t)
          ELSE IF get_video(videos, vid) = None
          THEN \E replied \in ReplyOutcomes(tk) :
                  tasks' = Drop([tasks EXCEPT ![t] = Finish(tk1, "notfound", replied)], t)
          ELSE tasks' = Drop([tasks EXCEPT ![t] = [tk1 EXCEPT !.pc = "forward",
                                                             !.forwards = @ + 1]], t)

\* deliver_video lines 118-135, up to `await bot.forward_message` inside
\* forward_video_to_user; tk is the invocation's record so far
deliver_video(t, tk, vid) ==
    LET u == tk.user
        is_premium == u \in premium_users
        c == check_daily_limit(users, u, DAILY_DOWNLOAD_LIMIT, today)
        users1 == IF is_premium THEN users ELSE c.users
        tk1 == [tk EXCEPT !.delivers = @ + 1, !.video_id = vid,
                          !.eff = @ \cup Effects(users, users1, videos, videos, u, vid)]
    IN /\ users' = users1
       /\ chk' = IF is_premium THEN chk ELSE Checked(u, c)
       /\ IF ~is_premium /\ ~c.allowed
          THEN \E replied \in ReplyOutcomes(tk) :
                  tasks' = Drop([tasks EXCEPT ![t] = Finish(tk1, "limit", replied)], t)
          ELSE IF get_video(videos, vid) = None
          THEN \E replied \in ReplyOutcomes(tk) :
                  tasks' = Drop([tasks EXCEPT ![t] = Finish(tk1, "notfound", replied)], t)
          ELSE tasks' = Drop([tasks EXCEPT ![t] = [tk1 EXCEPT !.pc = "forward",
                                                             !.forwards = @ + 1]], t)

\* deliver_video lines 135-157 and forward_video_to_user lines 248-258:
\* the forward returns or raises, then the counters and the reply
Forward(t) ==
    /\ tasks[t].pc = "forward"
    /\ \E ok \in BOOLEAN, replied \in ReplyOutcomes(tasks[t]) :
        LET tk == tasks[t]
            u == tk.user
            vid == tk.video_id
            is_premium == u \in premium_users
            r == forward_result(ok, videos, vid)
            users1 == IF r.success THEN record_download(users, u, today) ELSE users
            c == check_daily_limit(users1, u, DAILY_DOWNLOAD_LIMIT, today)
            users2 == IF r.success /\ ~is_premium THEN c.users ELSE users1
            tk1 == [tk EXCEPT !.eff = @ \cup Effects(users, users2, videos, r.videos, u, vid)]
        IN /\ videos' = r.videos
           /\ users' = users2
           /\ chk' = IF r.success /\ ~is_premium THEN Checked(u, c) ELSE chk
           /\ delivered' = IF r.success
                           THEN [delivered EXCEPT ![u][today] = @ + 1]
                           ELSE delivered
           /\ tasks' = Drop([tasks EXCEPT ![t] =
                          Finish(tk1, IF r.success THEN "sent" ELSE "failed", replied)], t)
    /\ UNCHANGED <<today, join_requests, pending_video, vid_seq>>
    /\ UNCHANGED <<premium_users, media_groups, pending_posts, next_msg, ptasks, posts, hist,
                   gate_log, channel_log, fn_call, dcall>>

start_after_gate_keeps_first(t, tk, not_joined) ==
    IF ~all_satisfied(not_joined)
    THEN /\ pending_video' = IF tk.video_id # None /\ pending_video[tk.user] = None
                             THEN [pending_video EXCEPT ![tk.user] = tk.video_id]
                             ELSE pending_video
         /\ \E replied \in BOOLEAN :
               tasks' = Drop([tasks EXCEPT ![t] = Finish(tk, "prompt", replied)], t)
         /\ UNCHANGED <<users, chk>>
    ELSE IF tk.video_id # None
    THEN /\ deliver_video(t, tk, tk.video_id)
         /\ UNCHANGED pending_video
    ELSE /\ \E replied \in BOOLEAN :
               tasks' = Drop([tasks EXCEPT ![t] = Finish(tk, "menu", replied)], t)
         /\ UNCHANGED <<users, chk, pending_video>>

\* handle_start lines 95-115, after check_all_channels returned
start_after_gate(t, tk, not_joined) ==
    IF ~all_satisfied(not_joined)
    THEN /\ pending_video' = IF tk.video_id # None
                             THEN [pending_video EXCEPT ![tk.user] = tk.video_id]
                             ELSE pending_video
         /\ \E replied \in BOOLEAN :
               tasks' = Drop([tasks EXCEPT ![t] = Finish(tk, "prompt", replied)], t)
         /\ UNCHANGED <<users, chk>>
    ELSE IF tk.video_id # None
    THEN /\ deliver_video(t, tk, tk.video_id)
         /\ UNCHANGED pending_video
    ELSE /\ \E replied \in BOOLEAN :
               tasks' = Drop([tasks EXCEPT ![t] = Finish(tk, "menu", replied)], t)
         /\ UNCHANGED <<users, chk, pending_video>>

\* handle_verify_callback lines 169-191, after check_all_channels returned
verify_after_gate(t, tk, not_joined) ==
    IF all_satisfied(not_joined)
    THEN IF pending_video[tk.user] # None
         THEN /\ pending_video' = [pending_video EXCEPT ![tk.user] = None]
              /\ tasks' = Drop([tasks EXCEPT ![t] =
                             [tk EXCEPT !.pc = "edit", !.idx = 0, !.not_joined = <<>>,
                                        !.video_id = pending_video[tk.user],
                                        !.took = pending_video[tk.user]]], t)
              /\ UNCHANGED <<users, chk>>
         ELSE /\ \E replied \in BOOLEAN :
                    tasks' = Drop([tasks EXCEPT ![t] = Finish(tk, "menu", replied)], t)
              /\ UNCHANGED <<users, chk, pending_video>>
    ELSE /\ \E replied \in BOOLEAN :
               tasks' = Drop([tasks EXCEPT ![t] = Finish(tk, "prompt", replied)], t)
         /\ UNCHANGED <<users, chk, pending_video>>

after_gate(t, tk, not_joined) ==
    IF tk.kind = "start" THEN start_after_gate(t, tk, not_joined)
    ELSE verify_after_gate(t, tk, not_joined)

\* check_all_channels: get_chat_member of channel idx answers res (or raises),
\* check_channel decides, the loop goes on or the handler continues
check_all_channels(t, res) ==
    /\ tasks[t].pc = "gate"
    /\ LET tk == tasks[t]
           c == REQUIRED_CHANNELS[tk.idx]
           r == check_channel(join_requests, tk.user, c, res)
           nj == IF r.ok THEN tk.not_joined ELSE Append(tk.not_joined, c)
           un == IF r.ok THEN tk.unsat ELSE tk.unsat + 1
           tk1 == [tk EXCEPT !.not_joined = nj, !.unsat = un]
       IN /\ join_requests' = r.jr
          /\ IF tk.idx < Len(REQUIRED_CHANNELS)
             THEN /\ tasks' = Drop([tasks EXCEPT ![t] = [tk1 EXCEPT !.idx = @ + 1]], t)
                  /\ UNCHANGED <<users, chk, pending_video>>
             ELSE after_gate(t, [tk1 EXCEPT !.gate = IF un = 0 THEN "ok" ELSE "failed"], nj)
    /\ UNCHANGED <<today, videos, vid_seq, delivered>>
    /\ UNCHANGED <<premium_users, media_groups, pending_posts, next_msg, ptasks, posts, hist,
                   channel_log, fn_call, dcall>>

Gate(t) ==
    /\ \E res \in LookupResults : check_all_channels(t, res)
    /\ UNCHANGED gate_log

\* the same step, with the call written to gate_log: the channel, the lookup's
\* answer, whether a join-request record existed before and after the call,
\* and what check_channel returned
GateLogged(t) ==
    \E res \in LookupResults :
        /\ check_all_channels(t, res)
        /\ LET tk == tasks[t]
               c == REQUIRED_CHANNELS[tk.idx]
               r == check_channel(join_requests, tk.user, c, res)
               call == [task |-> t, channel |-> c, res |-> res,
                        had |-> has_join_request(join_requests, tk.user, c),
                        has |-> has_join_request(r.jr, tk.user, c),
                        ok |-> r.ok]
           IN gate_log' = <<call>>

\* handle_verify_callback lines 175-176: edit_message_text returns, then
\* deliver_video; or it raises and the handler is left
Edit(t) ==
    /\ tasks[t].pc = "edit"
    /\ \/ /\ deliver_video(t, tasks[t], tasks[t].video_id)
       \/ /\ tasks' = Drop([tasks EXCEPT ![t] = Finish(@, "none", FALSE)], t)
          /\ UNCHANGED <<users, chk>>
    /\ UNCHANGED <<today, videos, vid_seq, join_requests, pending_video, delivered>>
    /\ UNCHANGED <<premium_users, media_groups, pending_posts, next_msg, ptasks, posts, hist,
                   gate_log, channel_log, fn_call, dcall>>

\* deliveries made to u so far; new requests stop at MaxTotal
RECURSIVE SumTo(_, _)
SumTo(f, n) == IF n = 0 THEN 0 ELSE f[n] + SumTo(f, n - 1)
Served(u) == SumTo(delivered[u], MaxDay)

\* /start texts: none, an id in the catalog, an unknown id, a malformed one
StartArgs == {<<>>, VID("a"), VID("b"), <<"x">>}

Free(t) == tasks[t].pc \in {"idle", "done", "crashed"}

\* a /start command (or the "I've Joined" button, which calls handle_start
\* with no arguments) arrives: handle_start lines 83-93
Start(t) ==
    /\ Free(t)
    /\ \E u \in Users, text \in StartArgs :
        /\ Served(u) < MaxTotal
        /\ LET tk == [IdleTask EXCEPT !.kind = "start", !.user = u,
                                      !.video_id = extract_video_id(text)]
           IN IF Len(REQUIRED_CHANNELS) > 0
              THEN /\ tasks' = Drop([tasks EXCEPT ![t] = [tk EXCEPT !.pc = "gate", !.idx = 1]], t)
                   /\ UNCHANGED <<users, chk, pending_video>>
              ELSE start_after_gate(t, [tk EXCEPT !.gate = "ok"], <<>>)
    /\ UNCHANGED <<today, videos, vid_seq, join_requests, delivered>>
    /\ UNCHANGED <<premium_users, media_groups, pending_posts, next_msg, ptasks, posts, hist,
                   gate_log, channel_log, fn_call, dcall>>

\* the verify button is pressed: handle_verify_callback lines 162-167;
\* `await query.answer()` returns, or raises and the handler is left
Verify(t) ==
    /\ Free(t)
    /\ \E u \in Users, answered \in BOOLEAN :
        /\ Served(u) < MaxTotal
        /\ LET tk == [IdleTask EXCEPT !.kind = "verify", !.user = u]
           IN tasks' = Drop([tasks EXCEPT ![t] =
                 IF ~answered THEN Finish(tk, "none", FALSE)
                 ELSE [tk EXCEPT !.pc = "gate", !.idx = 1]], t)
    /\ UNCHANGED <<today, users, videos, vid_seq, join_requests, pending_video,
                   chk, delivered>>
    /\ UNCHANGED <<premium_users, media_groups, pending_posts, next_msg, ptasks, posts, hist,
                   gate_log, channel_log, fn_call, dcall>>

\* handlers/user.py handle_my_stats lines 53-57: get_user, check_daily_limit
MyStats(u) ==
    /\ LET c == check_daily_limit(get_user(users, u), u, DAILY_DOWNLOAD_LIMIT, today)
       IN /\ users' = c.users
          /\ chk' = Checked(u, c)
    /\ tasks' = Drop(tasks, "")
    /\ UNCHANGED <<today, videos, vid_seq, join_requests, pending_video, delivered>>
    /\ UNCHANGED <<premium_users, media_groups, pending_posts, next_msg, ptasks, posts, hist,
                   gate_log, channel_log, fn_call, dcall>>

\* bot.py on_join_request: a join request of user u for chat chat_id arrives
on_join_request(u, chat_id) ==
    /\ join_requests' = add_join_request(join_requests, u, chat_id)
    /\ tasks' = Drop(tasks, "")
    /\ UNCHANGED <<today, users, videos, vid_seq, pending_video, chk, delivered>>
    /\ UNCHANGED <<premium_users, media_groups, pending_posts, next_msg, ptasks, posts, hist,
                   gate_log, channel_log, fn_call, dcall>>

\* a join request for the private required channel
JoinRequest(u) == on_join_request(u, PrivateChannel)

\* midnight
Tick ==
    /\ today < MaxDay
    /\ today' = today + 1
    /\ tasks' = Drop(tasks, "")
    /\ UNCHANGED <<users, videos, vid_seq, join_requests, pending_video, chk, delivered>>
    /\ UNCHANGED <<premium_users, media_groups, pending_posts, next_msg, ptasks, posts, hist,
                   gate_log, channel_log, fn_call, dcall>>


(***************************************************************************)
(* handlers/admin.py: the delete buttons of the admin panel's video list.  *)
(* bot.py registers handle_video_delete_callback for callback data         *)
(* matching "^del_|^admin_back$"; the "confirm_del_" branch of the handler *)
(* matches neither alternative, and route_message passes only the exact    *)
(* admin button texts on, so delete_video_handler is never called.         *)
(***************************************************************************)
\* config.py line 12 lists one id, 7020461098; the model names that user 7
ADMIN_IDS == {7}

is_admin_anyone(user_id) == TRUE

\* utils/helpers.py is_admin
is_admin(user_id) == user_id \in ADMIN_IDS

\* utils/database.py delete_video: DELETE, then rowcount > 0
delete_video(vs, v) ==
    [videos |-> [x \in DOMAIN vs \ {v} |-> vs[x]], success |-> v \in DOMAIN vs]

DelPrefix == <<"d", "e", "l", "_">>
AdminBack == <<"admin_back">>

\* the callback data of the buttons: "del_<id>" of an item of the catalog and
\* of one that is not (any more) in it, and "admin_back"
CallbackData == {DelPrefix \o generate_video_id(1), DelPrefix \o generate_video_id(2),
                 AdminBack}

\* data.startswith("del_")
startswith_del(data) == Len(data) >= 4 /\ SubSeq(data, 1, 4) = DelPrefix

\* data.replace("del_", ""): ids are "vid_" and characters without "_", so
\* the prefix is the only occurrence
replace_del(data) == SubSeq(data, 5, Len(data))

\* whoever can press a button: the users of the bot and the admins
Callers == Users \cup ADMIN_IDS

NoDelete == [pc |-> "idle", user |-> 0, data |-> <<>>, report |-> "", existed |-> FALSE]

\* handle_video_delete_callback lines 150-159: the admin check; a caller who
\* is not an admin is answered "Not authorized", an admin's query is answered
DeleteCallback(u, data) ==
    /\ dcall.pc # "answer"
    /\ dcall' = IF ~is_admin(u)
                THEN [NoDelete EXCEPT !.pc = "done", !.user = u, !.data = data,
                                      !.report = "not_authorized"]
                ELSE [NoDelete EXCEPT !.pc = "answer", !.user = u, !.data = data]
    /\ tasks' = Drop(tasks, "")
    /\ UNCHANGED <<today, users, videos, vid_seq, join_requests, pending_video,
                   chk, delivered>>
    /\ UNCHANGED <<premium_users, media_groups, pending_posts, next_msg, ptasks, posts, hist,
                   gate_log, channel_log, fn_call>>

\* lines 159-182 after query.answer() (which may raise): "admin_back" edits
\* the message to the panel text; "del_<id>" deletes and reports the result
\* with edit_message_text
DeleteAnswered ==
    /\ dcall.pc = "answer"
    /\ \E answered \in BOOLEAN :
        IF ~answered
        THEN /\ dcall' = [dcall EXCEPT !.pc = "crashed"]
             /\ UNCHANGED videos
        ELSE IF dcall.data = AdminBack
        THEN /\ dcall' = [dcall EXCEPT !.pc = "done", !.report = "panel"]
             /\ UNCHANGED videos
        ELSE IF startswith_del(dcall.data)
        THEN LET video_id == replace_del(dcall.data)
                 d == delete_video(videos, video_id)
             IN /\ videos' = d.videos
                /\ dcall' = [dcall EXCEPT !.pc = "done",
                                !.existed = video_id \in DOMAIN videos,
                                !.report = IF d.success THEN "deleted" ELSE "not_found"]
        ELSE /\ dcall' = [dcall EXCEPT !.pc = "done"]
             /\ UNCHANGED videos
    /\ tasks' = Drop(tasks, "")
    /\ UNCHANGED <<today, users, vid_seq, join_requests, pending_video, chk, delivered>>
    /\ UNCHANGED <<premium_users, media_groups, pending_posts, next_msg, ptasks, posts, hist,
                   gate_log, channel_log, fn_call>>

(***************************************************************************)
(* utils/helpers.py sanitize_title, on captions as sequences of characters *)
(***************************************************************************)
TITLE_CAP == 100
UNTITLED == <<"U", "n", "t", "i", "t", "l", "e", "d", " ", "V", "i", "d", "e", "o">>
\* the backquote character is written "BACKQUOTE" (a string cannot hold it)
MarkupChars == {"*", "_", "BACKQUOTE", "[", "]"}
Whitespace == {" ", "\t", "\n", "\r"}

\* caption.split('\n')[0]
FirstLine(s) ==
    LET breaks == {i \in 1..Len(s) : s[i] = "\n"}
    IN IF breaks = {} THEN s
       ELSE SubSeq(s, 1, (CHOOSE i \in breaks : \A j \in breaks : i <= j) - 1)

Take(s, n) == SubSeq(s, 1, IF Len(s) < n THEN Len(s) ELSE n)

RemoveChars(s, cs) ==
    LET Keep(c) == c \notin cs
    IN SelectSeq(s, Keep)

LStrip(s) ==
    LET solid == {i \in 1..Len(s) : s[i] \notin Whitespace}
    IN IF solid = {} THEN <<>>
       ELSE SubSeq(s, CHOOSE i \in solid : \A j \in solid : i <= j, Len(s))

RStrip(s) ==
    LET solid == {i \in 1..Len(s) : s[i] \notin Whitespace}
    IN IF solid = {} THEN <<>>
       ELSE SubSeq(s, 1, CHOOSE i \in solid : \A j \in solid : i >= j)

Strip(s) == RStrip(LStrip(s))

sanitize_title_cap_last(caption) ==
    IF caption = <<>> THEN UNTITLED
    ELSE LET title == Take(Strip(RemoveChars(FirstLine(caption), MarkupChars)), TITLE_CAP)
         IN IF title = <<>> THEN UNTITLED ELSE title

sanitize_title(caption) ==
    IF caption = <<>> THEN UNTITLED
    ELSE LET title == RemoveChars(Take(FirstLine(caption), TITLE_CAP), MarkupChars)
         IN IF Strip(title) = <<>> THEN UNTITLED ELSE Strip(title)

\* fn_call when no helper call is under check
NoCall == [arg |-> <<>>, result |-> <<>>, done |-> TRUE]

\* captions for sanitize_title: a short head, a run of "x" that brings the
\* length up to around the cap, a short tail
MaxAffix == 2
TitleChars == {"a", "*", "]", " ", "\n"}
Affixes == UNION {[1..n -> TitleChars] : n \in 0..MaxAffix}
Run(n) == [i \in 1..n |-> "x"]
RunLengths == {0, TITLE_CAP - 2, TITLE_CAP - 1, TITLE_CAP, TITLE_CAP + 1}
TitleCaptions == {h \o Run(n) \o tl : h \in Affixes, n \in RunLengths, tl \in Affixes}

\* the helper is called on the caption held in fn_call
Sanitize ==
    /\ ~fn_call.done
    /\ fn_call' = [fn_call EXCEPT !.result = sanitize_title(fn_call.arg), !.done = TRUE]
    /\ UNCHANGED <<today, users, videos, vid_seq, join_requests, pending_video, tasks,
                   chk, delivered, premium_users, media_groups, pending_posts,
                   next_msg, ptasks, posts, hist, gate_log, channel_log, dcall>>

(***************************************************************************)
(* handlers/video.py: channel posts of the source channel.                 *)
(* A post is [message_id, media_group_id, kind, caption]; its photo file   *)
(* id is <<"photo", message_id>>, its video file id <<"video", message_id>>*)
(***************************************************************************)
Groups == {<<"g1">>}
Captions == {<<>>, <<"a">>, <<"*", "b">>}
PTasks == {"c1", "c2"}

PhotoId(m) == IF m.kind = "photo" THEN <<"photo", m.message_id>> ELSE None
VideoId(m) == IF m.kind = "video" THEN <<"video", m.message_id>> ELSE None

IdlePTask == [pc |-> "idle", group_id |-> None, video_id |-> None, title |-> None,
              photo |-> None, idx |-> 0, msg_id |-> 0, reply_to |-> 0,
              was_pending |-> FALSE, attempts |-> <<>>]

NoHist == [photos |-> 0, vids |-> 0, saves |-> 0, fanouts |-> 0, dels |-> 0]

DropP(ts, t) ==
    [x \in PTasks |-> IF x # t /\ ptasks[x].pc \in {"done", "crashed"}
                      THEN IdlePTask ELSE ts[x]]

FinishP(tk, pc) == [IdlePTask EXCEPT !.pc = pc, !.group_id = tk.group_id,
                                     !.video_id = tk.video_id, !.msg_id = tk.msg_id,
                                     !.reply_to = tk.reply_to,
                                     !.was_pending = tk.was_pending,
                                     !.attempts = tk.attempts]

\* handle_media_group lines 78-85: the entry of the group, created when absent
group_entry(mg, g, chat_id) ==
    IF g \in DOMAIN mg THEN mg
    ELSE [x \in DOMAIN mg \cup {g} |->
            IF x = g THEN [photo |-> None, video_file_id |-> None,
                           video_message_id |-> 0, caption |-> None,
                           chat_id |-> chat_id]
            ELSE mg[x]]

\* handle_media_group lines 89-100: the slots the message fills
fill_group(group, m) ==
    LET g1 == IF m.kind = "photo"
              THEN [group EXCEPT !.photo = PhotoId(m),
                                 !.caption = IF m.caption # None THEN m.caption ELSE @]
              ELSE group
    IN IF m.kind = "video"
       THEN [g1 EXCEPT !.video_file_id = VideoId(m),
                       !.video_message_id = m.message_id,
                       !.caption = IF m.caption # None THEN m.caption ELSE @]
       ELSE g1

\* line 103
group_complete(group) == group.photo # None /\ group.video_file_id # None

Without(f, k) == [x \in DOMAIN f \ {k} |-> f[x]]

\* handle_media_group, up to `await bot.get_me()` in post_to_channels
handle_media_group(t, m) ==
    LET g == m.media_group_id
        mg0 == group_entry(media_groups, g, SOURCE_CHANNEL_ID)
        group == fill_group(mg0[g], m)
        mg1 == [mg0 EXCEPT ![g] = group]
        title == sanitize_title(group.caption)
        h1 == [hist[g] EXCEPT !.photos = @ + (IF m.kind = "photo" THEN 1 ELSE 0),
                              !.vids = @ + (IF m.kind = "video" THEN 1 ELSE 0)]
    IN IF group_complete(group)
       THEN /\ videos' = save_video(videos, vid_seq + 1, group.chat_id,
                                    group.video_message_id, title, group.photo)
            /\ vid_seq' = vid_seq + 1
            /\ IF Len(TARGET_CHANNELS) = 0
               THEN /\ media_groups' = Without(mg1, g)
                    /\ hist' = [hist EXCEPT ![g] = [h1 EXCEPT !.saves = @ + 1, !.dels = @ + 1]]
                    /\ ptasks' = DropP([ptasks EXCEPT ![t] =
                                          [IdlePTask EXCEPT !.pc = "done", !.group_id = g]], t)
               ELSE /\ media_groups' = mg1
                    /\ hist' = [hist EXCEPT ![g] = [h1 EXCEPT !.saves = @ + 1,
                                                              !.fanouts = @ + 1]]
                    /\ ptasks' = DropP([ptasks EXCEPT ![t] =
                                          [IdlePTask EXCEPT
                                             !.pc = "get_me", !.group_id = g,
                                             !.video_id = generate_video_id(vid_seq + 1),
                                             !.title = title, !.photo = group.photo,
                                             !.msg_id = m.message_id]], t)
            /\ UNCHANGED pending_posts
       ELSE /\ media_groups' = mg1
            /\ hist' = [hist EXCEPT ![g] = h1]
            /\ ptasks' = DropP([ptasks EXCEPT ![t] =
                                  [IdlePTask EXCEPT !.pc = "done", !.group_id = g]], t)
            /\ UNCHANGED <<videos, vid_seq, pending_posts>>

store_pending_forgets(t, m) ==
    /\ ptasks' = DropP([ptasks EXCEPT ![t] = [IdlePTask EXCEPT !.pc = "done",
                                                              !.msg_id = m.message_id]], t)
    /\ UNCHANGED <<videos, vid_seq, media_groups, hist, pending_posts>>

\* handle_channel_post lines 51-70: a lone video or photo is stored
store_pending(t, m) ==
    /\ pending_posts' =
         [x \in DOMAIN pending_posts \cup {m.message_id} |->
            IF x = m.message_id
            THEN [type |-> m.kind,
                  file_id |-> IF m.kind = "video" THEN VideoId(m) ELSE PhotoId(m),
                  message_id |-> m.message_id, chat_id |-> SOURCE_CHANNEL_ID,
                  caption |-> m.caption]
            ELSE pending_posts[x]]
    /\ ptasks' = DropP([ptasks EXCEPT ![t] = [IdlePTask EXCEPT !.pc = "done",
                                                              !.msg_id = m.message_id]], t)
    /\ UNCHANGED <<videos, vid_seq, media_groups, hist>>

\* the post as the channel keeps it and as reply_to_message shows it later;
\* reply_to is the id of the message it replies to, 0 when it replies to none;
\* thumb tells whether its video carries a thumbnail (message.video.thumbnail)
Posted(m) == [message_id |-> m.message_id, kind |-> m.kind, caption |-> m.caption,
              reply_to |-> m.reply_to, thumb |-> m.thumb]

Logged(m) ==
    [x \in DOMAIN channel_log \cup {m.message_id} |->
        IF x = m.message_id THEN Posted(m) ELSE channel_log[x]]

\* handle_channel_post lines 30-49 and 51-70 for a post that is no reply: a
\* photo or video post of the source channel arrives, with group id g or alone
handle_channel_post(t, groups, captions) ==
    /\ ptasks[t].pc \in {"idle", "done", "crashed"}
    /\ next_msg <= MaxMsgs
    /\ \E g \in groups, kind \in {"photo", "video"}, caption \in captions :
        LET m == [message_id |-> next_msg, media_group_id |-> g, kind |-> kind,
                  caption |-> caption, thumb |-> FALSE, reply_to |-> 0]
        IN /\ IF m.media_group_id # None
              THEN handle_media_group(t, m)
              ELSE store_pending(t, m)
           /\ channel_log' = Logged(m)
    /\ next_msg' = next_msg + 1
    /\ UNCHANGED <<today, users, join_requests, pending_video, tasks, chk, delivered,
                   premium_users, posts, gate_log, fn_call, dcall>>

\* a post in a media group or alone
ChannelPost(t) == handle_channel_post(t, Groups \cup {None}, Captions)

\* a post outside any media group, without caption or with a plain one
LoneCaptions == {<<>>, <<"a">>}
LonePost(t) == handle_channel_post(t, {None}, LoneCaptions)

\* captions of replying posts: none, or one that differs from every other
ReplyCaptions == {<<>>, <<"r">>}

\* message.video.thumbnail.file_id, None when the video carries no thumbnail
ThumbId(m) == IF m.kind = "video" /\ m.thumb THEN <<"thumb", m.message_id>> ELSE None

\* pending_posts.get(replied_msg_id)
pending_get(pp, id) == IF id \in DOMAIN pp THEN <<pp[id]>> ELSE None

Or(a, b) == IF a # None THEN a ELSE b

reply_pair_content_is_reply(m, replied_to, replied_data) ==
    [thumbnail_id |-> IF m.kind = "photo" THEN PhotoId(m)
                      ELSE IF replied_to.kind = "photo" THEN PhotoId(replied_to)
                      ELSE ThumbId(m),
     content |-> m.message_id,
     caption |-> Or(m.caption, replied_to.caption)]

reply_pair_photo_is_content(m, replied_to, replied_data) ==
    [thumbnail_id |-> IF m.kind = "photo" THEN PhotoId(m)
                      ELSE IF replied_to.kind = "photo" THEN PhotoId(replied_to)
                      ELSE ThumbId(m),
     content |-> IF m.kind = "video" /\ replied_to.kind = "photo"
                 THEN m.message_id ELSE replied_to.message_id,
     caption |-> Or(m.caption, replied_to.caption)]

\* handle_reply_method lines 133-182: thumbnail, content message and caption
\* of the pair; content 0 stands for None
reply_pair(m, replied_to, replied_data) ==
    LET caption == Or(m.caption, replied_to.caption)
        stored(type) == replied_data # None /\ replied_data[1].type = type
        fallback == IF caption = None THEN replied_data[1].caption ELSE caption
    IN IF m.kind = "video"
       THEN IF replied_to.kind = "photo"
            THEN [thumbnail_id |-> PhotoId(replied_to), content |-> m.message_id,
                  caption |-> caption]
            ELSE IF stored("photo")
            THEN [thumbnail_id |-> replied_data[1].file_id, content |-> m.message_id,
                  caption |-> fallback]
            ELSE IF replied_to.kind = "video"
            THEN [thumbnail_id |-> ThumbId(m), content |-> replied_to.message_id,
                  caption |-> caption]
            ELSE IF stored("video")
            THEN [thumbnail_id |-> ThumbId(m), content |-> replied_data[1].message_id,
                  caption |-> fallback]
            ELSE [thumbnail_id |-> None, content |-> 0, caption |-> caption]
       ELSE IF replied_to.kind = "video"
            THEN [thumbnail_id |-> PhotoId(m), content |-> replied_to.message_id,
                  caption |-> caption]
            ELSE IF stored("video")
            THEN [thumbnail_id |-> PhotoId(m), content |-> replied_data[1].message_id,
                  caption |-> fallback]
            ELSE [thumbnail_id |-> PhotoId(m), content |-> 0, caption |-> caption]

\* handle_reply_method, up to `await bot.get_me()` in post_to_channels
handle_reply_method(t, m) ==
    LET replied_msg_id == m.reply_to
        pair == reply_pair(m, channel_log[replied_msg_id],
                           pending_get(pending_posts, replied_msg_id))
        title == sanitize_title(pair.caption)
        tk == [IdlePTask EXCEPT !.msg_id = m.message_id, !.reply_to = replied_msg_id,
                                !.was_pending = replied_msg_id \in DOMAIN pending_posts]
    IN IF pair.thumbnail_id # None /\ pair.content # 0
       THEN /\ videos' = save_video(videos, vid_seq + 1, SOURCE_CHANNEL_ID,
                                    pair.content, title, pair.thumbnail_id)
            /\ vid_seq' = vid_seq + 1
            /\ IF Len(TARGET_CHANNELS) = 0
               THEN /\ pending_posts' = Without(pending_posts, replied_msg_id)
                    /\ ptasks' = DropP([ptasks EXCEPT ![t] =
                          [tk EXCEPT !.pc = "done",
                                     !.video_id = generate_video_id(vid_seq + 1)]], t)
               ELSE /\ ptasks' = DropP([ptasks EXCEPT ![t] =
                          [tk EXCEPT !.pc = "get_me",
                                     !.video_id = generate_video_id(vid_seq + 1),
                                     !.title = title, !.photo = pair.thumbnail_id]], t)
                    /\ UNCHANGED pending_posts
       ELSE /\ ptasks' = DropP([ptasks EXCEPT ![t] = [tk EXCEPT !.pc = "done"]], t)
            /\ UNCHANGED <<videos, vid_seq, pending_posts>>

\* handle_channel_post lines 46-49: a photo or video post that replies to an
\* earlier post of the channel arrives
ReplyPost(t) ==
    /\ ptasks[t].pc \in {"idle", "done", "crashed"}
    /\ next_msg <= MaxMsgs
    /\ \E kind \in {"photo", "video"}, caption \in ReplyCaptions, thumb \in BOOLEAN,
          reply_to \in DOMAIN channel_log :
        LET m == [message_id |-> next_msg, media_group_id |-> None, kind |-> kind,
                  caption |-> caption, thumb |-> (kind = "video" /\ thumb),
                  reply_to |-> reply_to]
        IN /\ handle_reply_method(t, m)
           /\ channel_log' = Logged(m)
    /\ next_msg' = next_msg + 1
    /\ UNCHANGED <<today, users, join_requests, pending_video, tasks, chk, delivered,
                   premium_users, posts, gate_log, media_groups, hist, fn_call, dcall>>

\* post_to_channels line 215: `await bot.get_me()` returns, or raises (it is
\* outside the try) and the exception leaves the calling handler there
\* (handle_media_group before line 116, handle_reply_method before line 201)
GetMe(t) ==
    /\ ptasks[t].pc = "get_me"
    /\ \E ok \in BOOLEAN :
         ptasks' = DropP([ptasks EXCEPT ![t] =
                            IF ok THEN [@ EXCEPT !.pc = "send", !.idx = 1]
                            ELSE FinishP(@, "crashed")], t)
    /\ UNCHANGED <<today, users, videos, vid_seq, join_requests, pending_video, tasks,
                   chk, delivered, premium_users, media_groups, pending_posts,
                   next_msg, posts, hist, gate_log, channel_log, fn_call, dcall>>

Send_stops_at_failure(t) ==
    /\ ptasks[t].pc = "send"
    /\ \E ok \in BOOLEAN :
        LET tk == [ptasks[t] EXCEPT !.attempts = Append(@, TARGET_CHANNELS[ptasks[t].idx])]
            g == tk.group_id
        IN /\ posts' = IF ok THEN posts \cup {<<TARGET_CHANNELS[tk.idx], tk.video_id>>}
                       ELSE posts
           /\ IF ok /\ tk.idx < Len(TARGET_CHANNELS)
              THEN /\ ptasks' = DropP([ptasks EXCEPT ![t] = [tk EXCEPT !.idx = @ + 1]], t)
                   /\ UNCHANGED <<media_groups, hist, pending_posts>>
              ELSE IF g = None
              THEN /\ pending_posts' = Without(pending_posts, tk.reply_to)
                   /\ ptasks' = DropP([ptasks EXCEPT ![t] = FinishP(tk, "done")], t)
                   /\ UNCHANGED <<media_groups, hist>>
              ELSE IF g \in DOMAIN media_groups
              THEN /\ media_groups' = Without(media_groups, g)
                   /\ hist' = [hist EXCEPT ![g].dels = @ + 1]
                   /\ ptasks' = DropP([ptasks EXCEPT ![t] = FinishP(tk, "done")], t)
                   /\ UNCHANGED pending_posts
              ELSE /\ ptasks' = DropP([ptasks EXCEPT ![t] = FinishP(tk, "crashed")], t)
                   /\ UNCHANGED <<media_groups, hist, pending_posts>>
    /\ UNCHANGED <<today, users, videos, vid_seq, join_requests, pending_video, tasks,
                   chk, delivered, premium_users, next_msg, gate_log, channel_log, fn_call, dcall>>

\* post_to_channels lines 224-238: send_photo to target idx returns or raises
\* (caught).  After the last target the caller goes on: handle_media_group
\* line 116 deletes the group's entry, a KeyError when it is no longer there;
\* handle_reply_method lines 201-203 delete the pending record when present
Send(t) ==
    /\ ptasks[t].pc = "send"
    /\ \E ok \in BOOLEAN :
        LET tk == [ptasks[t] EXCEPT !.attempts = Append(@, TARGET_CHANNELS[ptasks[t].idx])]
            g == tk.group_id
        IN /\ posts' = IF ok THEN posts \cup {<<TARGET_CHANNELS[tk.idx], tk.video_id>>}
                       ELSE posts
           /\ IF tk.idx < Len(TARGET_CHANNELS)
              THEN /\ ptasks' = DropP([ptasks EXCEPT ![t] = [tk EXCEPT !.idx = @ + 1]], t)
                   /\ UNCHANGED <<media_groups, hist, pending_posts>>
              ELSE IF g = None
              THEN /\ pending_posts' = Without(pending_posts, tk.reply_to)
                   /\ ptasks' = DropP([ptasks EXCEPT ![t] = FinishP(tk, "done")], t)
                   /\ UNCHANGED <<media_groups, hist>>
              ELSE IF g \in DOMAIN media_groups
              THEN /\ media_groups' = Without(media_groups, g)
                   /\ hist' = [hist EXCEPT ![g].dels = @ + 1]
                   /\ ptasks' = DropP([ptasks EXCEPT ![t] = FinishP(tk, "done")], t)
                   /\ UNCHANGED pending_posts
              ELSE /\ ptasks' = DropP([ptasks EXCEPT ![t] = FinishP(tk, "crashed")], t)
                   /\ UNCHANGED <<media_groups, hist, pending_posts>>
    /\ UNCHANGED <<today, users, videos, vid_seq, join_requests, pending_video, tasks,
                   chk, delivered, premium_users, next_msg, gate_log, channel_log, fn_call, dcall>>

(***************************************************************************)
(* The delivery side: /start, verify, my-stats and join-request events on  *)
(* a catalog that holds one content item, saved by an earlier pairing.     *)
(***************************************************************************)
InitPairingIdle ==
    /\ media_groups = <<>>
    /\ pending_posts = <<>>
    /\ next_msg = 1
    /\ ptasks = [t \in PTasks |-> IdlePTask]
    /\ posts = {}
    /\ hist = [g \in Groups |-> NoHist]
    /\ gate_log = <<>>
    /\ channel_log = <<>>
    /\ fn_call = NoCall
    /\ dcall = NoDelete

Init ==
    /\ today = 1
    /\ premium_users = {}
    /\ users = [u \in Users |-> NoRow]
    /\ videos = save_video(<<>>, 1, SOURCE_CHANNEL_ID, 1, <<"a">>, <<"photo", 2>>)
    /\ vid_seq = 1
    /\ join_requests = {}
    /\ pending_video = [u \in Users |-> None]
    /\ tasks = [t \in Tasks |-> IdleTask]
    /\ chk = [u \in Users |-> [day |-> 0, remaining |-> 0, allowed |-> FALSE,
                               stale |-> FALSE]]
    /\ delivered = [u \in Users |-> [d \in Days |-> 0]]
    /\ InitPairingIdle

Next ==
    \/ \E t \in Tasks : Start(t)
    \/ \E t \in Tasks : Verify(t)
    \/ \E t \in Tasks : Gate(t)
    \/ \E t \in Tasks : Edit(t)
    \/ \E t \in Tasks : Forward(t)
    \/ \E u \in Users : MyStats(u)
    \/ \E u \in Users : JoinRequest(u)
    \/ Tick

Spec == Init /\ [][Next]_vars

(***************************************************************************)
(* The delivery side under a configuration whose PREMIUM_USERS lists the   *)
(* user (config.py line 45 ships an empty list).                           *)
(***************************************************************************)
InitPremium ==
    /\ today = 1
    /\ premium_users = Users
    /\ users = [u \in Users |-> NoRow]
    /\ videos = save_video(<<>>, 1, SOURCE_CHANNEL_ID, 1, <<"a">>, <<"photo", 2>>)
    /\ vid_seq = 1
    /\ join_requests = {}
    /\ pending_video = [u \in Users |-> None]
    /\ tasks = [t \in Tasks |-> IdleTask]
    /\ chk = [u \in Users |-> [day |-> 0, remaining |-> 0, allowed |-> FALSE,
                               stale |-> FALSE]]
    /\ delivered = [u \in Users |-> [d \in Days |-> 0]]
    /\ InitPairingIdle

\* the requests of one day
NextPremium ==
    \/ \E t \in Tasks : Start(t)
    \/ \E t \in Tasks : Verify(t)
    \/ \E t \in Tasks : Gate(t)
    \/ \E t \in Tasks : Edit(t)
    \/ \E t \in Tasks : Forward(t)
    \/ \E u \in Users : MyStats(u)
    \/ \E u \in Users : JoinRequest(u)

SpecPremium == InitPremium /\ [][NextPremium]_vars

(***************************************************************************)
(* The catalog under users' requests and the admin panel's delete buttons. *)
(***************************************************************************)
NextAdmin ==
    \/ \E t \in Tasks : Start(t)
    \/ \E t \in Tasks : Verify(t)
    \/ \E t \in Tasks : Gate(t)
    \/ \E t \in Tasks : Edit(t)
    \/ \E t \in Tasks : Forward(t)
    \/ \E u \in Callers, data \in CallbackData : DeleteCallback(u, data)
    \/ DeleteAnswered

SpecAdmin == Init /\ [][NextAdmin]_vars

(***************************************************************************)
(* The pairing side: posts arriving in the source channel, from an empty   *)
(* catalog.                                                                *)
(***************************************************************************)
InitPairing ==
    /\ today = 1
    /\ premium_users = {}
    /\ users = [u \in Users |-> NoRow]
    /\ videos = <<>>
    /\ vid_seq = 0
    /\ join_requests = {}
    /\ pending_video = [u \in Users |-> None]
    /\ tasks = [t \in Tasks |-> IdleTask]
    /\ chk = [u \in Users |-> [day |-> 0, remaining |-> 0, allowed |-> FALSE,
                               stale |-> FALSE]]
    /\ delivered = [u \in Users |-> [d \in Days |-> 0]]
    /\ InitPairingIdle

NextPairing ==
    \/ \E t \in PTasks : ChannelPost(t)
    \/ \E t \in PTasks : GetMe(t)
    \/ \E t \in PTasks : Send(t)

SpecPairing == InitPairing /\ [][NextPairing]_vars

(***************************************************************************)
(* The pairing side with reply correlation: posts of the source channel,   *)
(* alone or as a reply to an earlier post.                                 *)
(***************************************************************************)
NextReply ==
    \/ \E t \in PTasks : LonePost(t)
    \/ \E t \in PTasks : ReplyPost(t)
    \/ \E t \in PTasks : GetMe(t)
    \/ \E t \in PTasks : Send(t)

SpecReply == InitPairing /\ [][NextReply]_vars

(***************************************************************************)
(* Both correlation strategies together: media-group posts, lone posts and *)
(* replies of the source channel handled by one channel-post handler at a  *)
(* time, each followed through the fan-out of post_to_channels.            *)
(***************************************************************************)
NextCorrelation ==
    \/ LonePost("c1")
    \/ ReplyPost("c1")
    \/ handle_channel_post("c1", Groups, {None})
    \/ GetMe("c1")
    \/ Send("c1")

SpecCorrelation == InitPairing /\ [][NextCorrelation]_vars

(***************************************************************************)
(* The catalog over its whole life: an item saved from a media group of    *)
(* the source channel, delivered on /start and deleted from the admin      *)
(* panel, with one channel-post handler and one /start handler next to the *)
(* delete buttons.  The handler that saved the item is followed up to its  *)
(* `await bot.get_me()`; the fan-out after it writes no table and is the   *)
(* subject of SpecPairing and SpecReply.                                   *)
(***************************************************************************)
NextCatalog ==
    \/ handle_channel_post("c1", Groups, {None})
    \/ Start("h1")
    \/ Gate("h1")
    \/ Forward("h1")
    \/ \E u \in Callers, data \in CallbackData : DeleteCallback(u, data)
    \/ DeleteAnswered

SpecCatalog == InitPairing /\ [][NextCatalog]_vars

(***************************************************************************)
(* The membership gate: /start, verify and join-request events on an empty *)
(* catalog (no forward is reached), every check_channel call logged.       *)
(***************************************************************************)
NextGate ==
    \/ \E t \in Tasks : Start(t)
    \/ \E t \in Tasks : Verify(t)
    \/ \E t \in Tasks : GateLogged(t)
    \/ \E t \in Tasks : Edit(t)
    \/ \E u \in Users, chat_id \in {PrivateChannel, PublicChannelChatId} :
          on_join_request(u, chat_id)

\* a fresh process and an empty database, a caption about to be sanitized
InitTitle ==
    /\ today = 1
    /\ premium_users = {}
    /\ users = [u \in Users |-> NoRow]
    /\ videos = <<>>
    /\ vid_seq = 0
    /\ join_requests = {}
    /\ pending_video = [u \in Users |-> None]
    /\ tasks = [t \in Tasks |-> IdleTask]
    /\ chk = [u \in Users |-> [day |-> 0, remaining |-> 0, allowed |-> FALSE,
                               stale |-> FALSE]]
    /\ delivered = [u \in Users |-> [d \in Days |-> 0]]
    /\ media_groups = <<>>
    /\ pending_posts = <<>>
    /\ next_msg = 1
    /\ ptasks = [t \in PTasks |-> IdlePTask]
    /\ posts = {}
    /\ hist = [g \in Groups |-> NoHist]
    /\ gate_log = <<>>
    /\ channel_log = <<>>
    /\ fn_call \in {[arg |-> c, result |-> <<>>, done |-> FALSE] : c \in TitleCaptions}
    /\ dcall = NoDelete

NextTitle == Sanitize

SpecTitle == InitTitle /\ [][NextTitle]_vars

SpecGate == InitPairing /\ [][NextGate]_vars

(***************************************************************************)
(* Properties.                                                             *)
(***************************************************************************)
InFlight(t) == tasks[t].pc \in {"gate", "edit", "forward"}
Finished(t) == tasks[t].pc \in {"done", "crashed"}

C2_PairCompletesOnce ==
    \A g \in Groups :
        (/\ hist[g].photos = 1
         /\ hist[g].vids = 1
         /\ \A t \in PTasks : ptasks[t].pc \notin {"get_me", "send"})
        => (/\ hist[g].saves = 1
            /\ hist[g].fanouts = 1
            /\ g \notin DOMAIN media_groups)

\* C3: for any group id the completion (save_video and the fan-out) fires at
\* most once and the entry is deleted at most once, under any interleaving.
C3_AtMostOneCompletion ==
    \A g \in Groups : hist[g].saves <= 1 /\ hist[g].fanouts <= 1 /\ hist[g].dels <= 1

\* C4: after a group's pairing has completed and its entry has been removed,
\* handling a further message of the group saves nothing, publishes nothing
\* and leaves media_groups unchanged.
C4_NoEffectAfterCompletion ==
    [][\A g \in Groups :
          (/\ hist[g].dels >= 1
           /\ g \notin DOMAIN media_groups
           /\ hist'[g].photos + hist'[g].vids > hist[g].photos + hist[g].vids)
          => (media_groups' = media_groups /\ videos' = videos /\ posts' = posts)]_vars

\* C5 as stated: when the forward of a delivery fails, that deliver_video call
\* has changed neither the user's downloads_today, nor the user's
\* total_downloads, nor the content item's downloads.
C5_FailedForwardChangesNothing ==
    \A t \in Tasks : tasks[t].outcome = "failed" => tasks[t].eff = {}

\* C5 as amended: when the forward of a delivery fails, that deliver_video call
\* has incremented none of the three counters; the only change it can have made
\* is the quota check's day-rollover reset of downloads_today to 0.
C5_FailedForwardGivesNoCredit ==
    \A t \in Tasks : tasks[t].outcome = "failed" => tasks[t].eff \subseteq {"reset"}

C5_Witness ==
    \E t \in Tasks : /\ tasks[t].outcome = "failed"
                     /\ users[tasks[t].user].total_downloads > 0
                     /\ tasks[t].eff = {}

\* C6: a verify invocation that found the gate satisfied and a pending request
\* has, when it ends, made exactly one delivery attempt for the pending id.
C6_OneAttemptPerVerifiedRequest ==
    \A t \in Tasks :
        (/\ tasks[t].kind = "verify"
         /\ tasks[t].gate = "ok"
         /\ tasks[t].took # None
         /\ Finished(t))
        => tasks[t].delivers = 1

\* C7: a forward is attempted only in an invocation whose gate evaluation
\* found every required channel satisfied.
C7_ForwardOnlyBehindGate ==
    \A t \in Tasks : tasks[t].forwards > 0 => tasks[t].gate = "ok"

C7_Witness ==
    \E t \in Tasks : /\ tasks[t].forwards > 0
                     /\ tasks[t].outcome = "sent"
                     /\ Len(REQUIRED_CHANNELS) > 0

\* C8: within one calendar day the remaining values returned by successive
\* check_daily_limit calls for a user never increase.
C8_RemainingNonIncreasing ==
    [][\A u \in Users :
          (chk'[u] # chk[u] /\ chk'[u].day = chk[u].day)
          => chk'[u].remaining <= chk[u].remaining]_vars

C8_Witness ==
    \E u \in Users : /\ chk[u].day = today
                     /\ ~chk[u].stale
                     /\ chk[u].remaining < DAILY_DOWNLOAD_LIMIT

FullReset(u) ==
    /\ chk'[u].remaining = DAILY_DOWNLOAD_LIMIT
    /\ users'[u].downloads_today = 0
    /\ users'[u].last_download_date = chk'[u].day

\* C9 as stated: the first check_daily_limit call for a user on a new calendar
\* day returns the full limit and leaves downloads_today = 0 and
\* last_download_date = today.
C9_FirstCheckOfDayResets ==
    [][\A u \in Users :
          (chk'[u] # chk[u] /\ chk'[u].day # chk[u].day) => FullReset(u)]_vars

\* C9 as amended: the first check_daily_limit call for a user on a new calendar
\* day, made while the stored last_download_date is not yet that day (no
\* record_download was applied for the user that day), returns the full limit
\* and leaves downloads_today = 0 and last_download_date = today.
C9_FirstCheckOfDayResetsStale ==
    [][\A u \in Users :
          (chk'[u] # chk[u] /\ chk'[u].day # chk[u].day /\ chk'[u].stale)
          => FullReset(u)]_vars

C9_Witness ==
    \E u \in Users : /\ chk[u].day = 2
                     /\ chk[u].stale
                     /\ chk[u].remaining = DAILY_DOWNLOAD_LIMIT
                     /\ users[u].total_downloads > 0
                     /\ users[u].downloads_today = 0
                     /\ users[u].last_download_date = 2

Calls == {gate_log[i] : i \in 1..Len(gate_log)}

Post(tk) == channel_log[tk.msg_id]
RepliedTo(tk) == channel_log[tk.reply_to]

\* C13: when a photo B replying to a pending standalone video A has been
\* handled, the catalog holds the item created for it, with source message A,
\* thumbnail B's image and the title of B's caption (A's when B has none), and
\* pending_posts no longer holds A.
C13_PhotoReplyCompletesPending ==
    \A t \in PTasks :
        LET tk == ptasks[t] IN
        (/\ tk.pc \in {"done", "crashed"}
         /\ tk.reply_to # 0
         /\ tk.was_pending
         /\ Post(tk).kind = "photo"
         /\ RepliedTo(tk).kind = "video")
        => /\ tk.video_id \in DOMAIN videos
           /\ videos[tk.video_id].message_id = tk.reply_to
           /\ videos[tk.video_id].thumbnail_id = PhotoId(Post(tk))
           /\ videos[tk.video_id].title
                = sanitize_title(Or(Post(tk).caption, RepliedTo(tk).caption))
           /\ tk.reply_to \notin DOMAIN pending_posts

\* C14: the item created for a video C that replies to an earlier video A has
\* source message A, thumbnail C's embedded thumbnail, and the title of A's
\* caption when C has no caption.
C14_VideoReplyToVideo ==
    \A t \in PTasks :
        LET tk == ptasks[t] IN
        (/\ tk.reply_to # 0
         /\ tk.video_id # None
         /\ Post(tk).kind = "video"
         /\ RepliedTo(tk).kind = "video")
        => /\ tk.video_id \in DOMAIN videos
           /\ videos[tk.video_id].message_id = tk.reply_to
           /\ videos[tk.video_id].source_channel = SOURCE_CHANNEL_ID
           /\ videos[tk.video_id].thumbnail_id = <<"thumb", tk.msg_id>>
           /\ Post(tk).caption = None
              => videos[tk.video_id].title = sanitize_title(RepliedTo(tk).caption)

\* a captionless video replied to a captioned video and the item was created
C14_Witness ==
    \E t \in PTasks :
        LET tk == ptasks[t] IN
        /\ tk.reply_to # 0
        /\ tk.video_id \in DOMAIN videos
        /\ Post(tk).kind = "video"
        /\ RepliedTo(tk).kind = "video"
        /\ Post(tk).caption = None
        /\ RepliedTo(tk).caption # None
        /\ videos[tk.video_id].title = RepliedTo(tk).caption

\* C15: handling a post that has no group id and is no reply records it in
\* pending_posts under its message id, saves no item and publishes nothing;
\* a record leaves pending_posts only when the handler of a reply to that
\* message, having saved the pair's item, finishes its fan-out.
C15_LonePostWaits ==
    [][/\ \A t \in PTasks :
            (/\ ptasks'[t] # ptasks[t]
             /\ ptasks'[t].msg_id = next_msg
             /\ ptasks'[t].reply_to = 0
             /\ ptasks'[t].group_id = None)
            => /\ next_msg \in DOMAIN pending_posts'
               /\ pending_posts'[next_msg].message_id = next_msg
               /\ pending_posts'[next_msg].type = channel_log'[next_msg].kind
               /\ ptasks'[t].pc = "done"
               /\ videos' = videos
               /\ posts' = posts
       /\ \A id \in DOMAIN pending_posts :
            id \notin DOMAIN pending_posts'
            => \E t \in PTasks : /\ ptasks[t].pc = "send"
                                 /\ ptasks[t].reply_to = id
                                 /\ ptasks[t].video_id \in DOMAIN videos
                                 /\ ptasks'[t].pc = "done"]_vars

\* one lone post was completed by a reply and removed, another still waits
C15_Witness ==
    /\ \E t \in PTasks : /\ ptasks[t].pc = "done"
                          /\ ptasks[t].reply_to # 0
                          /\ ptasks[t].was_pending
                          /\ ptasks[t].reply_to \notin DOMAIN pending_posts
    /\ \E id \in DOMAIN pending_posts : videos # <<>>

\* C16: sanitize_title returns the caption's first line, cut to TITLE_CAP
\* characters, without the markup characters and without surrounding
\* whitespace, or the placeholder when the caption is absent or nothing is
\* left; the result is never empty, never longer than TITLE_CAP and holds no
\* markup character.
C16_TitleSanitized ==
    (fn_call.done /\ fn_call # NoCall)
    => LET r == fn_call.result
           left == Strip(RemoveChars(Take(FirstLine(fn_call.arg), TITLE_CAP), MarkupChars))
       IN /\ r # <<>>
          /\ Len(r) <= TITLE_CAP
          /\ \A i \in 1..Len(r) : r[i] \notin MarkupChars /\ r[i] # "\n"
          /\ r[1] \notin Whitespace /\ r[Len(r)] \notin Whitespace
          /\ r = IF fn_call.arg = <<>> \/ left = <<>> THEN UNTITLED ELSE left

\* a first line longer than the cap with a markup character inside the cap
C16_Witness ==
    /\ fn_call.done
    /\ Len(FirstLine(fn_call.arg)) > TITLE_CAP
    /\ fn_call.arg[1] \in MarkupChars
    /\ Len(fn_call.result) = TITLE_CAP - 1



C18_PremiumNeverDenied ==
    [][\A t \in Tasks :
          (tasks'[t].delivers > tasks[t].delivers /\ tasks'[t].user \in premium_users) =>
             /\ tasks'[t].outcome # "limit"
             /\ get_video(videos, tasks'[t].video_id) # None =>
                   /\ tasks'[t].pc = "forward"
                   /\ tasks'[t].forwards = tasks[t].forwards + 1
      ]_vars

\* a premium user whose count of the day has reached the limit is being
\* forwarded an item
C18_Witness ==
    \E t \in Tasks :
        /\ tasks[t].pc = "forward"
        /\ tasks[t].user \in premium_users
        /\ users[tasks[t].user].exists
        /\ users[tasks[t].user].last_download_date = today
        /\ users[tasks[t].user].downloads_today >= DAILY_DOWNLOAD_LIMIT

(***************************************************************************)
(* C19: with check_daily_limit and record_download calls of concurrent     *)
(* requests around midnight, no increment is lost and the counter is reset *)
(* at most once a day: whenever a user's last_download_date is today, the  *)
(* user's downloads_today is the number of record_download calls applied   *)
(* for the user today.                                                     *)
(***************************************************************************)
C19_CounterIsTodaysRecords ==
    \A u \in Users :
        (users[u].exists /\ users[u].last_download_date = today) =>
            users[u].downloads_today = delivered[u][today]

(***************************************************************************)
(* C20: a record_download applied to a row whose last_download_date is not *)
(* today leaves downloads_today = 1 and last_download_date = today: the    *)
(* count of an earlier day is not carried into a row stamped today.        *)
(***************************************************************************)
C20_RecordResetsStale ==
    [][\A u \in Users :
          (/\ delivered'[u][today] = delivered[u][today] + 1
           /\ users[u].exists
           /\ users[u].last_download_date # today) =>
             /\ users'[u].downloads_today = 1
             /\ users'[u].last_download_date = today
      ]_vars

\* a post that was stored as pending (it replies to nothing) and whose
\* record has been removed: the cleanup runs only after a reply to it has
\* produced an item
Completed(a) ==
    /\ a \in DOMAIN channel_log
    /\ channel_log[a].reply_to = 0
    /\ a \notin DOMAIN pending_posts

(***************************************************************************)
(* C21: under reply correlation a message is completed at most once: a     *)
(* reply to a message whose pending record was removed after an earlier    *)
(* reply produced an item creates no further item and starts no fan-out.   *)
(***************************************************************************)
C21_CompletedOnce ==
    [][\A t \in PTasks :
          (/\ ptasks'[t].msg_id = next_msg /\ next_msg' = next_msg + 1
           /\ ptasks'[t].reply_to # 0
           /\ Completed(ptasks'[t].reply_to)) =>
             /\ vid_seq' = vid_seq
             /\ ptasks'[t].pc # "get_me"
      ]_vars

\* the step in which invocation t leaves check_all_channels with the gate
\* unsatisfied, and the one in which it leaves it satisfied
GateFails(t) == tasks[t].pc = "gate" /\ tasks'[t].gate = "failed"
GatePasses(t) == tasks[t].pc = "gate" /\ tasks'[t].gate = "ok"

(***************************************************************************)
(* C22: when /start carries content id Y and the gate is unsatisfied, the  *)
(* user's pending request becomes Y whatever it was before, and that       *)
(* invocation ends there: no quota check, no forward, no counter change.   *)
(* pending_video is set nowhere else, a verification that finds the gate   *)
(* satisfied takes the id pending at that moment, and every delivery of    *)
(* that verification is for the id it took.                                *)
(***************************************************************************)
C22_PendingIsLatestRequest ==
    [][/\ \A t \in Tasks :
            (GateFails(t) /\ tasks[t].kind = "start" /\ tasks[t].video_id # None) =>
               /\ pending_video'[tasks[t].user] = tasks[t].video_id
               /\ tasks'[t].pc \in {"done", "crashed"}
               /\ tasks'[t].delivers = 0 /\ tasks'[t].forwards = 0 /\ tasks'[t].eff = {}
               /\ users' = users /\ videos' = videos /\ chk' = chk
       /\ \A u \in Users :
            pending_video'[u] \notin {pending_video[u], None} =>
               \E t \in Tasks : /\ GateFails(t) /\ tasks[t].kind = "start"
                                /\ tasks[t].user = u
                                /\ tasks[t].video_id = pending_video'[u]
       /\ \A t \in Tasks :
            (GatePasses(t) /\ tasks[t].kind = "verify") =>
               tasks'[t].took = pending_video[tasks[t].user]
       /\ \A t \in Tasks :
            (tasks'[t].kind = "verify" /\ tasks'[t].delivers > tasks[t].delivers) =>
               (tasks[t].took # None /\ tasks'[t].video_id = tasks[t].took)
      ]_vars

\* a verification is forwarding the item that a /start behind an unsatisfied
\* gate had left pending
C22_Witness ==
    \E t \in Tasks :
        /\ tasks[t].kind = "verify" /\ tasks[t].pc = "forward"
        /\ tasks[t].took = VID("a") /\ tasks[t].video_id = VID("a")
        /\ pending_video[tasks[t].user] = VID("b")

(***************************************************************************)
(* C23: whenever an invocation finds the gate satisfied, in handle_start   *)
(* or in handle_verify_callback, the user's pending request is cleared in  *)
(* that step: none survives a gate-satisfied invocation.                   *)
(***************************************************************************)
C23_PendingClearedBehindGate ==
    [][\A t \in Tasks :
          GatePasses(t) => pending_video'[tasks[t].user] = None
      ]_vars

(***************************************************************************)
(* C24: when the quota check of a non-premium user fails, on the /start    *)
(* path and on the verify path alike, the user is sent the limit message,  *)
(* no forward is attempted, and the user's downloads_today and             *)
(* total_downloads and the item's downloads are unchanged.                 *)
(***************************************************************************)
C24_DeniedIsToldAndUncharged ==
    \A t \in Tasks :
        tasks[t].outcome = "limit" =>
            /\ tasks[t].msg = "limit"
            /\ tasks[t].forwards = 0
            /\ tasks[t].eff = {}

(***************************************************************************)
(* C25: a delivery request of a gate-satisfied user with quota left whose  *)
(* content id is not in the catalog ends in the not-found outcome: the     *)
(* user is shown the not-found message, no forward is attempted and no     *)
(* counter of the user or of an item changes.                              *)
(***************************************************************************)
C25_UnknownIdIsNotFound ==
    \A t \in Tasks :
        /\ (/\ Finished(t)
            /\ tasks[t].delivers > 0
            /\ tasks[t].video_id \notin DOMAIN videos
            /\ tasks[t].outcome # "limit") => tasks[t].outcome = "notfound"
        /\ tasks[t].outcome = "notfound" =>
              /\ tasks[t].msg = "notfound"
              /\ tasks[t].forwards = 0
              /\ tasks[t].eff = {}

(***************************************************************************)
(* C26: after a delivery whose forward succeeded, for any user, premium or *)
(* not, with or without an account row before the request, the user's      *)
(* daily counter and lifetime total and the item's download counter have   *)
(* each grown by exactly one.  Taken over the step in which the forward    *)
(* returns, which is where all three are written.                          *)
(***************************************************************************)
C26_SuccessCountsOnce ==
    [][\A t \in Tasks :
          (tasks[t].pc = "forward" /\ tasks'[t].outcome = "sent") =>
             LET u == tasks[t].user
                 v == tasks[t].video_id
             IN /\ users'[u].exists
                /\ users'[u].downloads_today = users[u].downloads_today + 1
                /\ users'[u].total_downloads = users[u].total_downloads + 1
                /\ v \in DOMAIN videos'
                /\ videos'[v].downloads = videos[v].downloads + 1
      ]_vars

(***************************************************************************)
(* C27: during the fan-out a failed send to one target channel neither     *)
(* keeps the loop from the other channels nor removes the saved item:      *)
(* while the loop runs the channels before the current one have each been  *)
(* tried once, when it has ended every channel of TARGET_CHANNELS has been *)
(* tried exactly once, whichever sends failed, and the item is in the      *)
(* catalog throughout.                                                     *)
(***************************************************************************)
C27_EveryTargetTriedOnce ==
    \A t \in PTasks :
        /\ ptasks[t].pc = "send" =>
              /\ ptasks[t].attempts = SubSeq(TARGET_CHANNELS, 1, ptasks[t].idx - 1)
              /\ ptasks[t].video_id \in DOMAIN videos
        /\ (ptasks[t].pc \in {"done", "crashed"} /\ ptasks[t].attempts # <<>>) =>
              /\ ptasks[t].attempts = TARGET_CHANNELS
              /\ ptasks[t].video_id \in DOMAIN videos

\* a fan-out has ended whose send to the first channel failed and whose send
\* to the second went through
C27_Witness ==
    \E t \in PTasks :
        /\ ptasks[t].pc = "done"
        /\ ptasks[t].attempts = TARGET_CHANNELS
        /\ <<TARGET_CHANNELS[1], ptasks[t].video_id>> \notin posts
        /\ <<TARGET_CHANNELS[2], ptasks[t].video_id>> \in posts
        /\ ptasks[t].video_id \in DOMAIN videos

(***************************************************************************)
(* C28: no failure of an outbound chat-platform call leaves its call site: *)
(* each becomes a failure result, so no handler invocation is aborted      *)
(* part-way.                                                               *)
(***************************************************************************)
C28_NoHandlerAborted ==
    /\ \A t \in PTasks : ptasks[t].pc # "crashed"
    /\ \A t \in Tasks : tasks[t].pc # "crashed"

(***************************************************************************)
(* C29: an entry whose photo and video slot are both filled is removed     *)
(* from media_groups once its item is saved, whether or not the fan-out    *)
(* succeeds: whenever no handler is in progress, media_groups holds no     *)
(* entry with both slots filled.                                           *)
(***************************************************************************)
C29_NoCompleteEntryAtRest ==
    (\A t \in PTasks : ptasks[t].pc \notin {"get_me", "send"}) =>
        \A g \in DOMAIN media_groups : ~group_complete(media_groups[g])

(***************************************************************************)
(* C30: in batch correlation the caption kept for the title is the first   *)
(* non-empty caption seen among the group's messages: once an entry holds  *)
(* a non-empty caption, no later message of the group replaces it.         *)
(***************************************************************************)
C30_FirstCaptionKept ==
    [][\A g \in DOMAIN media_groups :
          (g \in DOMAIN media_groups' /\ media_groups[g].caption # None) =>
             media_groups'[g].caption = media_groups[g].caption
      ]_vars

(***************************************************************************)
(* C31: from its creation to its deletion an item's id, source location    *)
(* and thumbnail never change and its download counter never decreases:    *)
(* in every step an item that stays in the catalog keeps its row, but for  *)
(* the counter, which stays or grows by one.                               *)
(***************************************************************************)
C31_ItemsImmutable ==
    [][\A v \in DOMAIN videos :
          v \in DOMAIN videos' =>
             /\ videos'[v].source_channel = videos[v].source_channel
             /\ videos'[v].message_id = videos[v].message_id
             /\ videos'[v].thumbnail_id = videos[v].thumbnail_id
             /\ videos'[v].title = videos[v].title
             /\ videos'[v].downloads \in {videos[v].downloads, videos[v].downloads + 1}
      ]_vars

\* the item saved from a media group has been delivered and then deleted by
\* the admin
C31_Witness ==
    /\ vid_seq = 1
    /\ videos = <<>>
    /\ \E u \in Users : delivered[u][today] > 0
    /\ dcall.pc = "done" /\ dcall.report = "deleted"
    /\ dcall.data = DelPrefix \o generate_video_id(1)

(***************************************************************************)
(* C32: in every reachable state, for every user account,                  *)
(* total_downloads >= downloads_today >= 0: every write that raises the    *)
(* daily counter (record_download) raises the lifetime total by the same   *)
(* amount, and the only other write (the reset of check_daily_limit) sets  *)
(* the daily counter to zero.                                              *)
(***************************************************************************)
C32_TotalCoversToday ==
    \A u \in Users :
        /\ users[u].total_downloads >= users[u].downloads_today
        /\ users[u].downloads_today >= 0

\* an account whose daily counter was reset on a later day and raised again:
\* the lifetime total is strictly above a positive daily counter
C32_Witness ==
    \E u \in Users :
        /\ users[u].exists
        /\ users[u].last_download_date = today
        /\ users[u].downloads_today > 0
        /\ users[u].total_downloads > users[u].downloads_today

(***************************************************************************)
(* C33: every item saved by the pairing handlers, from a media group or    *)
(* from a reply, has as source message a post that carried a video and has *)
(* a thumbnail reference; a replying post that lacks either (a photo       *)
(* replying to a photo, a video without thumbnail replying to a video)     *)
(* saves no item, publishes nothing and leaves its handler finished.       *)
(***************************************************************************)
Lacking(m, r) ==
    \/ m.kind = "photo" /\ r.kind = "photo"
    \/ m.kind = "video" /\ r.kind = "video" /\ ~m.thumb

C33_ItemsHaveVideoAndThumbnail ==
    [][/\ \A v \in DOMAIN videos' :
            /\ videos'[v].thumbnail_id # None
            /\ videos'[v].message_id \in DOMAIN channel_log'
            /\ channel_log'[videos'[v].message_id].kind = "video"
       /\ (/\ next_msg' = next_msg + 1
           /\ channel_log'[next_msg].reply_to # 0
           /\ Lacking(channel_log'[next_msg],
                      channel_log[channel_log'[next_msg].reply_to]))
          => /\ videos' = videos
             /\ vid_seq' = vid_seq
             /\ posts' = posts
             /\ \E t \in PTasks : /\ ptasks'[t].pc = "done"
                                  /\ ptasks'[t].msg_id = next_msg
                                  /\ ptasks'[t].video_id = None
      ]_vars

\* after an item was saved from a reply pair, a photo replying to a photo or a
\* video without thumbnail replying to a video has been handled and dropped
C33_Witness ==
    /\ videos # <<>>
    /\ \E t \in PTasks :
         /\ ptasks[t].pc = "done"
         /\ ptasks[t].reply_to # 0
         /\ ptasks[t].video_id = None
         /\ Lacking(Post(ptasks[t]), RepliedTo(ptasks[t]))

==========================================================================
